---- MODULE Spec2Model ----
(***************************************************************************)
(* A model of the zipper crate (src/src/lib.rs): the fixed-Huffman DEFLATE *)
(* encoder `encode` with its ByteReader, BitWriter, Crc32, Header, match   *)
(* search and length/distance coders, and of main (src/src/main.rs), which *)
(* calls encode.                                                           *)
(***************************************************************************)
EXTENDS Integers, Sequences, FiniteSets, TLC

VARIABLES
    pc,             \* position of encode in its code
    input,          \* the bytes of the input file
    stream,         \* the underlying input stream: position, read outcomes still to come
    input_reader,   \* ByteReader
    output_writer,  \* BitWriter
    crcs,           \* Crc32, as the sequence of bytes passed to push_buf
    window,         \* the sliding window
    res,            \* the match candidate of the current outer iteration
    offset,         \* the distance of the last successful match_check
    header,         \* the fields Header::new receives
    written,        \* the records written to the output file, in order
    tokens,         \* history: the symbols written between block header and flush
    bitlog,         \* history: the bits asked of the BitWriter, in call order
    track,          \* whether the writer's bytes and the histories are recorded
    call,           \* a call of one of the pure functions: its argument and result
    input_file,     \* the bytes of the path encode is given as input_file
    process,        \* main: whether it has returned, what it printed, the exit status
    stale           \* history: encode kept a byte it took while flag was false

vars == <<pc, input, stream, input_reader, output_writer, crcs, window, res,
          offset, header, written, tokens, bitlog, track, call, input_file,
          process, stale>>

(***************************************************************************)
(* Program constants.                                                      *)
(***************************************************************************)
MAX_BUFFER_SIZE == 1024
MAX_MATCH_LEN == 258
MIN_MATCH_LEN == 3
MAX_WINDOW_SIZE == 1024

(***************************************************************************)
(* Bounds of the model.                                                    *)
(***************************************************************************)
\* every input over ByteValues of at most MaxLen bytes is encoded, under
\* every split of it into reads
MaxLen == 3
\* at most MaxFail reads of a run fail (runs of Spec)
MaxFail == 1
\* inputs of at most MaxLiveLen bytes are encoded on a stream whose reads
\* may fail for ever (runs of LiveSpec)
MaxLiveLen == 1
\* at most MaxBits bits are written in a run of BitsSpec, at most MaxWidth
\* in one call
MaxBits == 12
MaxWidth == 3
\* match_check is called on every window over ByteValues of at most MaxWindow
\* entries and every check of at most MaxCheck
MaxWindow == 4
MaxCheck == 3
\* at most MaxCrcLen bytes are pushed to a Crc32 in a run of CrcSpec
MaxCrcLen == 5

ByteValues == {0, 1}

ERR == -1

Min(a, b) == IF a < b THEN a ELSE b

Bit(v, i) == (v \div (2 ^ i)) % 2

(***************************************************************************)
(* BitWriter (lib.rs 24-121).  A writer is a record                        *)
(* [bit_count, buffer, output_vector].                                     *)
(***************************************************************************)
BitWriter_new == [bit_count |-> 0, buffer |-> 0, output_vector |-> <<>>]

\* the reversal loop of flush and flush_to_output: bit i of b goes to bit 7-i
reverse8(b) ==
    Bit(b, 0) * 128 + Bit(b, 1) * 64 + Bit(b, 2) * 32 + Bit(b, 3) * 16
    + Bit(b, 4) * 8 + Bit(b, 5) * 4 + Bit(b, 6) * 2 + Bit(b, 7)

flush_to_outputKeepsCount(w) ==
    [bit_count |-> w.bit_count, buffer |-> 0,
     output_vector |-> Append(w.output_vector, reverse8(w.buffer))]

flush_to_output(w) ==
    [bit_count |-> 0, buffer |-> 0,
     output_vector |-> Append(w.output_vector, reverse8(w.buffer))]

\* the body of the for loops of code_bits and extra_bits, for one bit
push_bit(w, bit) ==
    LET w1 == IF w.bit_count = 8 THEN flush_to_output(w) ELSE w
    IN  [w1 EXCEPT !.buffer = ((w1.buffer * 2) % 256) + bit,
                   !.bit_count = w1.bit_count + 1]

RECURSIVE code_bits_from(_, _, _, _)
code_bits_from(w, bits, bit_count, i) ==
    IF i >= bit_count THEN w
    ELSE code_bits_from(push_bit(w, Bit(bits, bit_count - 1 - i)), bits, bit_count, i + 1)

code_bits(w, bits, bit_count) == code_bits_from(w, bits, bit_count, 0)

RECURSIVE extra_bits_from(_, _, _, _)
extra_bits_from(w, bits, bit_count, i) ==
    IF i >= bit_count THEN w
    ELSE extra_bits_from(push_bit(w, Bit(bits, i)), bits, bit_count, i + 1)

extra_bitsMsbFirst(w, bits, bit_count) == code_bits_from(w, bits, bit_count, 0)

extra_bits(w, bits, bit_count) == extra_bits_from(w, bits, bit_count, 0)

flush(w) ==
    IF w.bit_count > 0
    THEN LET shifted == (w.buffer * (2 ^ (8 - w.bit_count))) % 256
         IN  [w EXCEPT !.buffer = shifted,
                       !.output_vector = Append(w.output_vector, reverse8(shifted))]
    ELSE w

(***************************************************************************)
(* The underlying input stream.  stream.sched lists the outcomes of the    *)
(* reads still to come while input is left: a count n >= 1 of bytes, or    *)
(* ERR.  With sched used up the stream is at its end: a read returns 0, or *)
(* fails for ever when stream.stuck.                                       *)
(***************************************************************************)
read_outcome(s) ==
    IF s.sched # <<>> THEN Head(s.sched)
    ELSE IF s.stuck THEN ERR ELSE 0

read_stream(s) ==
    LET n == read_outcome(s)
    IN  [pos    |-> IF n > 0 THEN s.pos + n ELSE s.pos,
         sched  |-> IF s.sched # <<>> THEN Tail(s.sched) ELSE s.sched,
         stuck  |-> s.stuck,
         last   |-> IF n = ERR THEN "err" ELSE IF n = 0 THEN "eof" ELSE "ok",
         failed |-> s.failed \/ n = ERR]

(***************************************************************************)
(* ByteReader (lib.rs 132-201).  A reader is a record                      *)
(* [buffer, buf_count, buf_size, flag, file_size]; buffer holds the array  *)
(* up to the last index ever written, the entries after it are still 0.    *)
(* file_size is a u32; no input of the model comes near 2^32 bytes.        *)
(***************************************************************************)
buffer_at(buffer, i) == IF i < Len(buffer) THEN buffer[i + 1] ELSE 0

\* read(&mut self.buffer) returning n bytes overwrites the first n entries
buffer_fill(buffer, data) ==
    data \o SubSeq(buffer, Len(data) + 1, Len(buffer))

load_next_byteLastCount(r, s, data) ==
    LET n == read_outcome(s)
    IN  IF n = ERR THEN r
        ELSE IF n = 0 THEN [r EXCEPT !.flag = FALSE, !.buf_size = 0]
        ELSE [r EXCEPT !.file_size = n,
                       !.buf_size = n, !.flag = TRUE,
                       !.buffer = buffer_fill(r.buffer, SubSeq(data, s.pos + 1, s.pos + n))]

\* the ? of line 159 returns before flag and buf_size are assigned
load_next_byte(r, s, data) ==
    LET n == read_outcome(s)
    IN  IF n = ERR THEN r
        ELSE IF n = 0 THEN [r EXCEPT !.flag = FALSE, !.buf_size = 0]
        ELSE [r EXCEPT !.file_size = r.file_size + n,
                       !.buf_size = n, !.flag = TRUE,
                       !.buffer = buffer_fill(r.buffer, SubSeq(data, s.pos + 1, s.pos + n))]

ByteReader_new(s, data) ==
    load_next_byte([buffer |-> <<>>, buf_count |-> 0, buf_size |-> 0,
                    flag |-> TRUE, file_size |-> 0], s, data)

seek_byte(r) == buffer_at(r.buffer, r.buf_count)

\* whether next_byte reads from the stream
refills(r) == ~ (r.buf_count + 1 < r.buf_size)

next_byte(r, s, data) ==
    IF r.buf_count + 1 < r.buf_size
    THEN [r EXCEPT !.buf_count = r.buf_count + 1]
    ELSE [load_next_byte(r, s, data) EXCEPT !.buf_count = 0]

\* the stream after next_byte
next_stream(r, s) == IF refills(r) THEN read_stream(s) ELSE s

get_byte(r, s, data) ==
    [byte |-> buffer_at(r.buffer, r.buf_count),
     rd   |-> next_byte(r, s, data),
     st   |-> next_stream(r, s)]

(***************************************************************************)
(* Crc32 (lib.rs 214-296).  A u32 is the pair <<high, low>> of its 16-bit  *)
(* halves.  A Crc32 is a record                                            *)
(* [divisor, non_divisor, buffer, buf_count, first_count].                 *)
(***************************************************************************)
\* the u32 of an integer below 2^31
u32_of(v) == <<v \div 65536, v % 65536>>

\* x << n, for n up to 16
shl(x, n) ==
    <<(x[1] * (2 ^ n) + x[2] \div (2 ^ (16 - n))) % 65536, (x[2] * (2 ^ n)) % 65536>>

\* x + b and x | b, where the bits of b below 2^16 are 0 in x
or_low(x, b) == <<x[1], x[2] + b>>

\* a ^ b on n bits
RECURSIVE xor_bits(_, _, _)
xor_bits(a, b, n) ==
    IF n = 0 THEN 0
    ELSE ((a + b) % 2) + 2 * xor_bits(a \div 2, b \div 2, n - 1)

Crc32_new ==
    [divisor |-> u32_of(79764919), non_divisor |-> u32_of(0),
     buffer |-> 0, buf_count |-> 0, first_count |-> 0]

\* lines 273-276
xor(c) ==
    [c EXCEPT !.non_divisor = <<xor_bits(c.non_divisor[1], c.divisor[1], 16),
                                xor_bits(c.non_divisor[2], c.divisor[2], 16)>>]

\* the body of the for loop of bit_shift; non_divisor >= 2147483648 is its
\* top bit
bit_shift_step(c, i) ==
    LET shifted == [c EXCEPT !.non_divisor =
                       or_low(shl(c.non_divisor, 1), Bit(c.buffer, c.buf_count - i - 1))]
    IN  IF c.non_divisor[1] >= 32768 THEN xor(shifted) ELSE shifted

\* the for loop from i on; x is the Crc32 after the step for i
RECURSIVE bit_shift_from(_, _)
bit_shift_from(c, i) ==
    IF i >= c.buf_count THEN [c EXCEPT !.buf_count = 0]
    ELSE CHOOSE r \in {bit_shift_from(x, i + 1) : x \in {bit_shift_step(c, i)}} : TRUE

bit_shift(c) == bit_shift_from(c, 0)

push_bufNoPriming(c, buf) ==
    bit_shift([c EXCEPT !.buffer = reverse8(buf), !.buf_count = 8])

\* lines 236-251: !buffer is the complement of the reversed byte
push_buf(c, buf) ==
    LET buffer == reverse8(buf)
    IN  IF c.first_count < 4
        THEN [c EXCEPT !.non_divisor = or_low(shl(c.non_divisor, 8), 255 - buffer),
                       !.first_count = c.first_count + 1]
        ELSE bit_shift([c EXCEPT !.buffer = buffer, !.buf_count = 8])

\* the reversal loop of get_crc32: bit i of x goes to bit 31-i
reverse32(x) ==
    <<reverse8(x[2] % 256) * 256 + reverse8(x[2] \div 256),
      reverse8(x[1] % 256) * 256 + reverse8(x[1] \div 256)>>

\* lines 281-295: four zero bytes, the reversal of the 32 bits, the complement
get_crc32(c) ==
    CHOOSE r \in {<<65535 - buffer[1], 65535 - buffer[2]>> :
                      buffer \in {reverse32(c4.non_divisor) :
                          c4 \in {push_buf(c3, 0) :
                              c3 \in {push_buf(c2, 0) :
                                  c2 \in {push_buf(c1, 0) :
                                      c1 \in {push_buf(c, 0)}}}}}} : TRUE

\* push_buf of bytes[lo..hi] in order, as encode does byte after byte: the
\* first half, then the second on the Crc32 x the first half left
RECURSIVE push_bufs(_, _, _, _)
push_bufs(c, bytes, lo, hi) ==
    IF lo > hi THEN c
    ELSE IF lo = hi THEN push_buf(c, bytes[lo])
    ELSE CHOOSE r \in {push_bufs(x, bytes, ((lo + hi) \div 2) + 1, hi) :
                          x \in {push_bufs(c, bytes, lo, (lo + hi) \div 2)}} : TRUE

(***************************************************************************)
(* Header (lib.rs 309-504).  A header is a record                          *)
(* [before_size, after_size, filename, crc32, hms, ymd]; crc32 is a u32 as *)
(* above, the sizes are integers, filename the bytes of the name.  Each    *)
(* push is the sequence of bytes it appends to the header's buffer.        *)
(***************************************************************************)
Header_new(before_size, after_size, filename, crc32, hms, ymd) ==
    [before_size |-> before_size, after_size |-> after_size,
     filename |-> filename, crc32 |-> crc32, hms |-> hms, ymd |-> ymd]

push32(num) == <<num[2] % 256, num[2] \div 256, num[1] % 256, num[1] \div 256>>

push16(num) == <<num % 256, (num \div 256) % 256>>

push_pk0506 == <<80, 75, 5, 6>>
push_pk0304 == <<80, 75, 3, 4>>
push_pk0102 == <<80, 75, 1, 2>>

local_header(h) ==
    push_pk0304 \o push16(20) \o push16(0) \o push16(8)
    \o push16(h.hms) \o push16(h.ymd)
    \o push32(h.crc32) \o push32(u32_of(h.after_size)) \o push32(u32_of(h.before_size))
    \o push16(Len(h.filename) % 65536) \o push16(0)
    \o h.filename

central_header(h) ==
    push_pk0102 \o push16(788) \o push16(20) \o push16(0) \o push16(8)
    \o push16(h.hms) \o push16(h.ymd)
    \o push32(h.crc32) \o push32(u32_of(h.after_size)) \o push32(u32_of(h.before_size))
    \o push16(Len(h.filename) % 65536) \o push16(0) \o push16(0) \o push16(0)
    \o push16(0) \o push32(u32_of(0)) \o push32(u32_of(0))
    \o h.filename

end_headerSizeOfLocal(h, header_size, header_start) ==
    push_pk0506 \o push16(0) \o push16(0) \o push16(1) \o push16(1)
    \o push32(u32_of(Len(local_header(h)))) \o push32(u32_of(header_start)) \o push16(0)

end_header(h, header_size, header_start) ==
    push_pk0506 \o push16(0) \o push16(0) \o push16(1) \o push16(1)
    \o push32(u32_of(header_size)) \o push32(u32_of(header_start)) \o push16(0)

(***************************************************************************)
(* time_data (lib.rs 511-542).  The modification time of the input file    *)
(* comes as a local date; with no metadata it is the epoch.                *)
(***************************************************************************)
Dates ==
    {[year |-> 1970, month |-> 1, day |-> 1, hour |-> 0, minute |-> 0, second |-> 0],
     [year |-> 2026, month |-> 11, day |-> 5, hour |-> 12, minute |-> 34, second |-> 56]}

\* <<hms, ymd>>, each cut to a u16
time_data(d) ==
    <<(d.hour * 2048 + d.minute * 32 + d.second \div 2) % 65536,
      ((d.year - 1980) * 512 + d.month * 32 + d.day) % 65536>>

(***************************************************************************)
(* match_check (lib.rs 548-564): the distance of the first occurrence of   *)
(* check found scanning window from its oldest entry, or -1.               *)
(***************************************************************************)
\* the inner loop: check occurs in win at 0-based index i
match_at(win, check, i) ==
    \A j \in 1..Len(check) : win[i + j] = check[j]

first_matchLast(win, check) ==
    CHOOSE i \in 0..(Len(win) - Len(check)) :
        /\ match_at(win, check, i)
        /\ \A k \in (i + 1)..(Len(win) - Len(check)) : ~ match_at(win, check, k)

\* the outer loop returns at the first i, scanning up from 0, at which check
\* occurs
first_match(win, check) ==
    CHOOSE i \in 0..(Len(win) - Len(check)) :
        /\ match_at(win, check, i)
        /\ \A k \in 0..(i - 1) : ~ match_at(win, check, k)

match_check(win, check) ==
    IF Len(win) < Len(check) THEN -1
    ELSE IF \A i \in 0..(Len(win) - Len(check)) : ~ match_at(win, check, i) THEN -1
    ELSE Len(win) - Len(check) - first_match(win, check) + 1

(***************************************************************************)
(* changer (lib.rs 569-578): symbol -> <<code length, code>>.              *)
(***************************************************************************)
changer(num) ==
    IF num >= 0 /\ num <= 143 THEN <<8, num + 48>>
    ELSE IF num >= 144 /\ num <= 255 THEN <<9, num + 145>>
    ELSE IF num >= 256 /\ num <= 279 THEN <<7, num - 256>>
    ELSE IF num >= 280 /\ num <= 287 THEN <<8, num - 88>>
    ELSE <<0, 512>>

(***************************************************************************)
(* length_extra (lib.rs 583-609): length -> <<symbol, extra bits, extra>>. *)
(* The arms after the first, each <<first, last, symbol, extra bits>>.     *)
(***************************************************************************)
length_arms ==
    << <<11, 12, 265, 1>>, <<13, 14, 266, 1>>, <<15, 16, 267, 1>>,
       <<17, 18, 268, 1>>, <<19, 22, 269, 2>>, <<23, 26, 270, 2>>,
       <<27, 30, 271, 2>>, <<31, 34, 272, 2>>, <<35, 42, 273, 3>>,
       <<43, 50, 274, 3>>, <<51, 58, 275, 3>>, <<59, 66, 276, 3>>,
       <<67, 82, 277, 4>>, <<83, 98, 278, 4>>, <<99, 114, 279, 4>>,
       <<115, 130, 280, 4>>, <<131, 162, 281, 5>>, <<163, 194, 282, 5>>,
       <<195, 226, 283, 5>>, <<227, 257, 284, 5>> >>

length_extra(data) ==
    IF data >= 3 /\ data <= 10 THEN <<data + 254, 0, 0>>
    ELSE LET hit == {k \in 1..Len(length_arms) :
                        length_arms[k][1] <= data /\ data <= length_arms[k][2]}
         IN  IF hit = {} THEN <<286, 6, 0>>
             ELSE LET arm == length_arms[CHOOSE k \in hit : TRUE]
                  IN  <<arm[3], arm[4], (data - 3) % (2 ^ arm[4])>>

(***************************************************************************)
(* distance_extra (lib.rs 614-646): distance -> <<symbol, extra bits,      *)
(* extra>>.  The arms after the first.                                     *)
(***************************************************************************)
distance_arms ==
    << <<5, 6, 4, 1>>, <<7, 8, 5, 1>>, <<9, 12, 6, 2>>, <<13, 16, 7, 2>>,
       <<17, 24, 8, 3>>, <<25, 32, 9, 3>>, <<33, 48, 10, 4>>,
       <<49, 64, 11, 4>>, <<65, 96, 12, 5>>, <<97, 128, 13, 5>>,
       <<129, 192, 14, 6>>, <<193, 256, 15, 6>>, <<257, 384, 16, 7>>,
       <<385, 512, 17, 7>>, <<513, 768, 18, 8>>, <<769, 1024, 19, 8>>,
       <<1025, 1536, 20, 9>>, <<1537, 2048, 21, 9>>, <<2049, 3072, 22, 10>>,
       <<3073, 4096, 23, 10>>, <<4097, 6144, 24, 11>>, <<6145, 8192, 25, 11>>,
       <<8193, 12288, 26, 12>>, <<12289, 16384, 27, 12>>,
       <<16385, 24576, 28, 13>>, <<24577, 32768, 29, 13>> >>

distance_extraOfData(data) ==
    IF data >= 1 /\ data <= 4 THEN <<data - 1, 0, 0>>
    ELSE LET hit == {k \in 1..Len(distance_arms) :
                        distance_arms[k][1] <= data /\ data <= distance_arms[k][2]}
         IN  IF hit = {} THEN <<31, 14, 0>>
             ELSE LET arm == distance_arms[CHOOSE k \in hit : TRUE]
                  IN  <<arm[3], arm[4], data % (2 ^ arm[4])>>

distance_extra(data) ==
    IF data >= 1 /\ data <= 4 THEN <<data - 1, 0, 0>>
    ELSE LET hit == {k \in 1..Len(distance_arms) :
                        distance_arms[k][1] <= data /\ data <= distance_arms[k][2]}
         IN  IF hit = {} THEN <<31, 14, 0>>
             ELSE LET arm == distance_arms[CHOOSE k \in hit : TRUE]
                  IN  <<arm[3], arm[4], (data - 1) % (2 ^ arm[4])>>

(***************************************************************************)
(* encode (lib.rs 662-771), one action per stretch of its code.            *)
(***************************************************************************)
\* a history is recorded only in the runs that track
Rec(new, old) == IF track THEN new ELSE old

Literal(b) == [kind |-> "lit", byte |-> b, len |-> 0, dist |-> 0, lsym |-> 0, dsym |-> 0]
Match(l, d, ls, ds) ==
    [kind |-> "match", byte |-> 0, len |-> l, dist |-> d, lsym |-> ls, dsym |-> ds]
EndOfBlock == [kind |-> "eob", byte |-> 0, len |-> 0, dist |-> 0, lsym |-> 256, dsym |-> 0]

RECURSIVE Literals(_)
Literals(bytes) ==
    IF bytes = <<>> THEN <<>> ELSE <<Literal(Head(bytes))>> \o Literals(Tail(bytes))

\* lines 708-714: every byte of res as a literal
RECURSIVE emit_literals(_, _)
emit_literals(w, bytes) ==
    IF bytes = <<>> THEN w
    ELSE LET c == changer(Head(bytes))
         IN  emit_literals(code_bits(w, c[2], c[1]), Tail(bytes))

\* lines 716-734: length symbol, its extra bits, distance symbol, its extra bits
emit_match(w, length, distance) ==
    LET l  == length_extra(length)
        c  == changer(l[1])
        w1 == code_bits(w, c[2], c[1])
        w2 == extra_bits(w1, l[3], l[2])
        d  == distance_extra(distance)
        w3 == code_bits(w2, d[1], 5)
    IN  extra_bits(w3, d[3], d[2])

trim_windowNever(win) == win

\* lines 736-738
trim_window(win) ==
    IF Len(win) > MAX_WINDOW_SIZE
    THEN SubSeq(win, Len(win) - MAX_WINDOW_SIZE + 1, Len(win))
    ELSE win

\* lines 663-664: File::open and File::create, each returned with ?
OpenFiles ==
    /\ pc = "Open"
    /\ \E ok \in BOOLEAN : pc' = IF ok THEN "Start" ELSE "Failed"
    /\ UNCHANGED <<input, stream, input_reader, output_writer, crcs, window, res,
                   offset, header, written, tokens, bitlog, track, call,
                   input_file, process, stale>>

\* lines 665-677: the reader with its preload, the block header, the first byte
Start ==
    /\ pc = "Start"
    /\ LET r0 == ByteReader_new(stream, input)
           s0 == read_stream(stream)
           g  == get_byte(r0, s0, input)
           c  == changer(g.byte)
           w0 == extra_bits(extra_bits(BitWriter_new, 1, 1), 1, 2)
       IN  /\ input_reader' = g.rd
           /\ stream' = g.st
           /\ crcs' = Rec(Append(crcs, g.byte), crcs)
           /\ output_writer' = Rec(code_bits(w0, c[2], c[1]), output_writer)
           /\ tokens' = Rec(Append(tokens, Literal(g.byte)), tokens)
           /\ stale' = (r0.flag = FALSE)
    /\ pc' = "Loop"
    /\ UNCHANGED <<input, window, res, offset, header, written, bitlog, track, call,
                   input_file, process>>

\* lines 679-691: the head of the outer loop, up to the inner while
LoopHead ==
    /\ pc = "Loop"
    /\ IF input_reader.flag = FALSE
       THEN /\ pc' = "Finish"
            /\ UNCHANGED <<input_reader, stream, crcs, res, offset, window>>
       ELSE LET g == get_byte(input_reader, stream, input)
            IN  /\ input_reader' = g.rd
                /\ stream' = g.st
                /\ crcs' = Rec(Append(crcs, g.byte), crcs)
                /\ res' = <<g.byte>>
                /\ offset' = -1
                /\ window' = Append(window, g.byte)
                /\ pc' = "Grow"
    /\ UNCHANGED <<input, output_writer, header, written, tokens, bitlog, track, call,
                   input_file, process, stale>>

\* lines 692-706: one iteration of the inner while
Grow ==
    /\ pc = "Grow"
    /\ IF ~ (Len(res) < MAX_MATCH_LEN)
       THEN /\ pc' = "Emit"
            /\ UNCHANGED <<input_reader, stream, crcs, res, offset, window, stale>>
       ELSE LET v == seek_byte(input_reader)
                new_offset == match_check(window, Append(res, v))
            IN  IF new_offset = -1
                THEN /\ pc' = "Emit"
                     /\ UNCHANGED <<input_reader, stream, crcs, res, offset, window,
                                    stale>>
                ELSE /\ res' = Append(res, v)
                     /\ window' = Append(window, v)
                     /\ offset' = new_offset
                     /\ crcs' = Rec(Append(crcs, v), crcs)
                     /\ input_reader' = next_byte(input_reader, stream, input)
                     /\ stream' = next_stream(input_reader, stream)
                     /\ stale' = (stale \/ input_reader.flag = FALSE)
                     /\ pc' = IF input_reader'.flag = FALSE THEN "Emit" ELSE "Grow"
    /\ UNCHANGED <<input, output_writer, header, written, tokens, bitlog, track, call,
                   input_file, process>>

\* lines 707-738: the literals or the pair, then the trim of the window
Emit ==
    /\ pc = "Emit"
    /\ IF Len(res) < MIN_MATCH_LEN
       THEN /\ output_writer' = Rec(emit_literals(output_writer, res), output_writer)
            /\ tokens' = Rec(tokens \o Literals(res), tokens)
       ELSE /\ output_writer' = Rec(emit_match(output_writer, Len(res), offset), output_writer)
            /\ tokens' = Rec(Append(tokens, Match(Len(res), offset,
                                                  length_extra(Len(res))[1],
                                                  distance_extra(offset)[1])), tokens)
    /\ window' = trim_window(window)
    /\ pc' = "Loop"
    /\ UNCHANGED <<input, stream, input_reader, crcs, res, offset, header, written,
                   bitlog, track, call,
                   input_file, process, stale>>

\* lines 742-753: end of block, flush, the CRC, the three headers
Finish ==
    /\ pc = "Finish"
    /\ LET w == flush(code_bits(output_writer, 0, 7))
       IN  /\ output_writer' = Rec(w, output_writer)
           /\ \E d \in Dates :
              \E crc32 \in {get_crc32(push_bufs(Crc32_new, crcs, 1, Len(crcs)))} :
                 LET h == Header_new(input_reader.file_size,
                                     Len(output_writer'.output_vector),
                                     input_file, crc32, time_data(d)[1], time_data(d)[2])
                     local == local_header(h)
                     central == central_header(h)
                 IN  header' = [built |-> TRUE,
                                before_size |-> h.before_size,
                                after_size |-> h.after_size,
                                local_header |-> local,
                                central_header |-> central,
                                end_header |-> end_header(h, Len(central),
                                    Len(local) + Len(output_writer'.output_vector))]
    /\ tokens' = Rec(Append(tokens, EndOfBlock), tokens)
    /\ pc' = "WriteLocal"
    /\ UNCHANGED <<input, stream, input_reader, crcs, window, res, offset, written,
                   bitlog, track, call,
                   input_file, process, stale>>

write_resultGoesOn(ok, next) == next

\* the ? after write_all: the error is returned, else encode goes on
write_result(ok, next) == IF ok THEN next ELSE "Failed"

\* a write_all of lines 765-768, which succeeds or fails
write_all(at, record, next) ==
    /\ pc = at
    /\ \E ok \in BOOLEAN :
          /\ written' = Append(written, [record |-> record, ok |-> ok])
          /\ pc' = write_result(ok, next)
    /\ UNCHANGED <<input, stream, input_reader, output_writer, crcs, window, res,
                   offset, header, tokens, bitlog, track, call,
                   input_file, process, stale>>

WriteLocal == write_all("WriteLocal", "local_header", "WritePayload")
WritePayload == write_all("WritePayload", "output_vector", "WriteCentral")
WriteCentral == write_all("WriteCentral", "central_header", "WriteEnd")
WriteEnd == write_all("WriteEnd", "end_header", "Done")

(***************************************************************************)
(* main (main.rs 10-26) after the check of its arguments: it calls encode, *)
(* prints the error if encode returned one, and returns; a main that       *)
(* returns ends the process with status 0.                                 *)
(***************************************************************************)
\* the status of the process when main returns, whatever encode returned
exit_status(failed) == 0

\* lines 24-25: unwrap_or_else runs eprintln! on an Err, then main returns
MainReturns ==
    /\ pc \in {"Done", "Failed"}
    /\ ~ process.exited
    /\ process' = [exited |-> TRUE,
                   reported |-> (pc = "Failed"),
                   status |-> exit_status(pc = "Failed")]
    /\ UNCHANGED <<pc, input, stream, input_reader, output_writer, crcs, window, res,
                   offset, header, written, tokens, bitlog, track, call,
                   input_file, stale>>

Next ==
    \/ OpenFiles
    \/ Start
    \/ LoopHead
    \/ Grow
    \/ Emit
    \/ Finish
    \/ WriteLocal
    \/ WritePayload
    \/ WriteCentral
    \/ WriteEnd
    \/ MainReturns

(***************************************************************************)
(* The inputs and streams of the runs.                                     *)
(***************************************************************************)
RECURSIVE SeqsUpTo(_, _)
SeqsUpTo(S, n) ==
    IF n = 0 THEN {<<>>}
    ELSE LET shorter == SeqsUpTo(S, n - 1)
         IN  shorter \cup {Append(q, x) : q \in {p \in shorter : Len(p) = n - 1}, x \in S}

\* the outcomes of the reads that deliver n bytes, f of them failing
RECURSIVE Scheds(_, _)
Scheds(n, f) ==
    (IF n = 0 THEN {<<>>} ELSE {})
    \cup UNION {{<<k>> \o q : q \in Scheds(n - k, f)} : k \in 1..Min(n, MAX_BUFFER_SIZE)}
    \cup (IF f > 0 THEN {<<ERR>> \o q : q \in Scheds(n, f - 1)} ELSE {})

Zeros(n) == [i \in 1..n |-> 0]

\* 7 8 9 and its repeat MAX_WINDOW_SIZE bytes later, and one byte further
NearRepeat == <<5, 7, 8, 9>> \o Zeros(MAX_WINDOW_SIZE - 3) \o <<7, 8, 9>>
FarRepeat == <<5, 7, 8, 9>> \o Zeros(MAX_WINDOW_SIZE - 2) \o <<7, 8, 9>>

\* runs that give a match of MAX_MATCH_LEN - 1 and of MAX_MATCH_LEN bytes, the
\* two repeats, and inputs of one and of two full blocks
LongInputs ==
    {Zeros(MAX_MATCH_LEN + 1), Zeros(MAX_MATCH_LEN + 2), NearRepeat, FarRepeat,
     Zeros(MAX_BUFFER_SIZE), Zeros(2 * MAX_BUFFER_SIZE)}

\* a long input is read in full blocks, or with a short block first
LongScheds(n) ==
    IF n <= MAX_BUFFER_SIZE THEN {<<n>>, <<1, n - 1>>}
    ELSE {<<MAX_BUFFER_SIZE, n - MAX_BUFFER_SIZE>>, <<n - MAX_BUFFER_SIZE, MAX_BUFFER_SIZE>>}

SmallEnvs ==
    UNION {{[input |-> i, sched |-> q, stuck |-> FALSE] : q \in Scheds(Len(i), MaxFail)} :
              i \in SeqsUpTo(ByteValues, MaxLen)}

LongEnvs ==
    UNION {{[input |-> i, sched |-> q, stuck |-> FALSE] : q \in LongScheds(Len(i))} :
              i \in LongInputs}

\* a stuck stream delivers the input and then fails every read
LiveEnvs ==
    UNION {{[input |-> i, sched |-> q, stuck |-> st] :
               q \in Scheds(Len(i), 0), st \in BOOLEAN} :
              i \in SeqsUpTo(ByteValues, MaxLiveLen)}

NoCall == [fn |-> "none", arg |-> 0, ret |-> <<>>, done |-> FALSE]

\* the state before encode has run a line, on the input and stream of e
Fresh(e, tr) ==
    /\ input = e.input
    /\ stream = [pos |-> 0, sched |-> e.sched, stuck |-> e.stuck,
                 last |-> "none", failed |-> FALSE]
    /\ input_reader = [buffer |-> <<>>, buf_count |-> 0, buf_size |-> 0,
                       flag |-> TRUE, file_size |-> 0]
    /\ output_writer = BitWriter_new
    /\ crcs = <<>>
    /\ window = <<>>
    /\ res = <<>>
    /\ offset = -1
    /\ header = [built |-> FALSE, before_size |-> 0, after_size |-> 0,
                 local_header |-> <<>>, central_header |-> <<>>, end_header |-> <<>>]
    /\ written = <<>>
    /\ tokens = <<>>
    /\ bitlog = <<>>
    /\ track = tr
    /\ process = [exited |-> FALSE, reported |-> FALSE, status |-> 0]
    /\ stale = FALSE

\* the paths main passes as input_file: a name, and a name in a directory
FileNames == {<<97>>, <<100, 47, 97>>}

InitWith(e, tr) ==
    pc = "Open" /\ call = NoCall /\ input_file \in FileNames /\ Fresh(e, tr)

Init == \E e \in SmallEnvs \cup LongEnvs : InitWith(e, TRUE)

Spec == Init /\ [][Next]_vars

\* encode on a stream that may fail for ever; encode is sequential code that
\* always takes its next step
LiveInit == \E e \in LiveEnvs : InitWith(e, FALSE)

LiveSpec == LiveInit /\ [][Next]_vars /\ WF_vars(Next)

(***************************************************************************)
(* The BitWriter alone: any calls of code_bits and extra_bits, then flush. *)
(* bitlog records what each call was asked to send: the low bits of a code *)
(* from the most significant down, those of an extra value from the least  *)
(* significant up.                                                         *)
(***************************************************************************)
NoEnv == [input |-> <<>>, sched |-> <<>>, stuck |-> FALSE]

MsbFirst(bits, n) == [k \in 1..n |-> Bit(bits, n - k)]
LsbFirst(bits, n) == [k \in 1..n |-> Bit(bits, k - 1)]

\* the values passed with a width of n: every n-bit value, also with a bit
\* set above the n low ones
Values(n) == 0..(2 ^ (n + 1) - 1)

BitsInit == pc = "Bits" /\ call = NoCall /\ input_file = <<>> /\ Fresh(NoEnv, TRUE)

BitsCode ==
    /\ pc = "Bits"
    /\ \E n \in 0..MaxWidth : \E v \in Values(n) :
          /\ Len(bitlog) + n <= MaxBits
          /\ output_writer' = code_bits(output_writer, v, n)
          /\ bitlog' = bitlog \o MsbFirst(v, n)
    /\ UNCHANGED <<pc, input, stream, input_reader, crcs, window, res, offset,
                   header, written, tokens, track, call,
                   input_file, process, stale>>

BitsExtra ==
    /\ pc = "Bits"
    /\ \E n \in 0..MaxWidth : \E v \in Values(n) :
          /\ Len(bitlog) + n <= MaxBits
          /\ output_writer' = extra_bits(output_writer, v, n)
          /\ bitlog' = bitlog \o LsbFirst(v, n)
    /\ UNCHANGED <<pc, input, stream, input_reader, crcs, window, res, offset,
                   header, written, tokens, track, call,
                   input_file, process, stale>>

BitsFlush ==
    /\ pc = "Bits"
    /\ output_writer' = flush(output_writer)
    /\ pc' = "Flushed"
    /\ UNCHANGED <<input, stream, input_reader, crcs, window, res, offset,
                   header, written, tokens, bitlog, track, call,
                   input_file, process, stale>>

BitsNext == BitsCode \/ BitsExtra \/ BitsFlush

BitsSpec == BitsInit /\ [][BitsNext]_vars

(***************************************************************************)
(* The coders alone: one call of a pure function on an argument of its     *)
(* domain.                                                                 *)
(***************************************************************************)
Lengths == MIN_MATCH_LEN..MAX_MATCH_LEN

\* the symbols of the literal/length alphabet
Symbols == 0..287

\* the distances of DEFLATE
Distances == 1..32768

ToCall(fn, arg) == [fn |-> fn, arg |-> arg, ret |-> <<>>, done |-> FALSE]

CoderInit ==
    /\ pc = "Call"
    /\ input_file = <<>>
    /\ Fresh(NoEnv, TRUE)
    /\ \/ \E l \in Lengths : call = ToCall("length_extra", l)
       \/ \E num \in Symbols : call = ToCall("changer", num)
       \/ \E d \in Distances : call = ToCall("distance_extra", d)
       \/ \E win \in SeqsUpTo(ByteValues, MaxWindow) :
             \E check \in SeqsUpTo(ByteValues, MaxCheck) :
                call = ToCall("match_check", <<win, check>>)

Returns(fn, ret) ==
    /\ pc = "Call"
    /\ call.fn = fn
    /\ call' = [call EXCEPT !.ret = ret, !.done = TRUE]
    /\ pc' = "Returned"
    /\ UNCHANGED <<input, stream, input_reader, output_writer, crcs, window, res,
                   offset, header, written, tokens, bitlog, track,
                   input_file, process, stale>>

CallLengthExtra == Returns("length_extra", length_extra(call.arg))

CallChanger == Returns("changer", changer(call.arg))

CallDistanceExtra == Returns("distance_extra", distance_extra(call.arg))

CallMatchCheck == Returns("match_check", match_check(call.arg[1], call.arg[2]))

CoderNext == CallLengthExtra \/ CallChanger \/ CallDistanceExtra \/ CallMatchCheck

CoderSpec == CoderInit /\ [][CoderNext]_vars

(***************************************************************************)
(* A Crc32 alone: new, any calls of push_buf, then get_crc32.  crcs        *)
(* records the bytes pushed, call.arg is the Crc32.                        *)
(***************************************************************************)
CrcBytes == {0, 1, 97, 255}

CrcInit ==
    /\ pc = "Crc"
    /\ input_file = <<>>
    /\ Fresh(NoEnv, TRUE)
    /\ call = ToCall("get_crc32", Crc32_new)

CrcPush ==
    /\ pc = "Crc"
    /\ Len(crcs) < MaxCrcLen
    /\ \E buf \in CrcBytes :
          /\ call' = [call EXCEPT !.arg = push_buf(call.arg, buf)]
          /\ crcs' = Append(crcs, buf)
    /\ UNCHANGED <<pc, input, stream, input_reader, output_writer, window, res,
                   offset, header, written, tokens, bitlog, track,
                   input_file, process, stale>>

CrcGet ==
    /\ pc = "Crc"
    /\ call' = [call EXCEPT !.ret = get_crc32(call.arg), !.done = TRUE]
    /\ pc' = "CrcDone"
    /\ UNCHANGED <<input, stream, input_reader, output_writer, crcs, window, res,
                   offset, header, written, tokens, bitlog, track,
                   input_file, process, stale>>

CrcNext == CrcPush \/ CrcGet

CrcSpec == CrcInit /\ [][CrcNext]_vars

(***************************************************************************)
(* What the claims speak of.                                               *)
(***************************************************************************)
\* the states of section 4.8
Phase ==
    IF pc \in {"Open", "Start"} THEN "Start"
    ELSE IF pc \in {"Loop", "Grow", "Emit"} THEN "StreamingCompress"
    ELSE IF pc \in {"Finish", "WriteLocal", "WritePayload", "WriteCentral", "WriteEnd"}
         THEN "Finalizing"
    ELSE pc

\* an inflater's copy of n bytes from dist back, byte by byte; a distance
\* that reaches before the output gives -1, which is no byte
RECURSIVE copy_back(_, _, _)
copy_back(out, dist, n) ==
    IF n = 0 THEN out
    ELSE IF dist < 1 \/ dist > Len(out) THEN Append(out, -1)
    ELSE copy_back(Append(out, out[Len(out) - dist + 1]), dist, n - 1)

RECURSIVE decode_from(_, _, _)
decode_from(toks, k, out) ==
    IF k > Len(toks) \/ toks[k].kind = "eob" THEN out
    ELSE IF toks[k].kind = "lit" THEN decode_from(toks, k + 1, Append(out, toks[k].byte))
    ELSE decode_from(toks, k + 1, copy_back(out, toks[k].dist, toks[k].len))

Decode(toks) == decode_from(toks, 1, <<>>)

Matches == {k \in 1..Len(tokens) : tokens[k].kind = "match"}

\* C1: once encode has left its loop without a failed read, decoding the
\* tokens it emitted before the end-of-block symbol gives the input back.
\* Stated for the inputs of at least one byte; the empty input is C3's.
C1_RoundTrip ==
    (header.built /\ ~ stream.failed /\ input # <<>>) => Decode(tokens) = input

\* C2: once encode has left its loop without a failed read, the bytes passed
\* to Crc32::push_buf are the input bytes, each once and in order.  Stated
\* for the inputs of at least one byte; the empty input is C3's.
C2_CrcFedTheInput ==
    (header.built /\ ~ stream.failed /\ input # <<>>) => crcs = input

\* C3: for the empty input encode emits the end-of-block symbol and nothing
\* else, the payload is 1 byte, and the headers get sizes 0 and 1.
C3_EmptyInput ==
    (header.built /\ input = <<>> /\ ~ stream.failed) =>
        /\ tokens = <<EndOfBlock>>
        /\ Len(output_writer.output_vector) = 1
        /\ header.before_size = 0
        /\ header.after_size = 1

\* C4: every pair emitted has a length in 3..258 and a distance in 1..1024,
\* whatever the reads do; the repeat of 7 8 9 that lies 1025 bytes back is
\* emitted as three literals.  The window holds at most 1024 entries at the
\* head of the outer loop and at most 1024 + 258 while a match is grown.
C4_PairBounds ==
    /\ Len(window) <= MAX_WINDOW_SIZE + MAX_MATCH_LEN
    /\ pc = "Loop" => Len(window) <= MAX_WINDOW_SIZE
    /\ \A k \in Matches :
          /\ MIN_MATCH_LEN <= tokens[k].len /\ tokens[k].len <= MAX_MATCH_LEN
          /\ 1 <= tokens[k].dist /\ tokens[k].dist <= MAX_WINDOW_SIZE
    /\ (header.built /\ input = FarRepeat) =>
          SubSeq(tokens, Len(tokens) - 3, Len(tokens)) =
              <<Literal(7), Literal(8), Literal(9), EndOfBlock>>

\* the repeat that lies 1024 bytes back was emitted as a pair of length 3
C4_Witness ==
    /\ header.built
    /\ input = NearRepeat
    /\ \E k \in Matches : tokens[k].dist = MAX_WINDOW_SIZE /\ tokens[k].len = MIN_MATCH_LEN

\* DEFLATE's length table (RFC 1951, 3.2.5): the base length of symbols
\* 257..285 and their extra bits
StdLengthBase ==
    <<3, 4, 5, 6, 7, 8, 9, 10, 11, 13, 15, 17, 19, 23, 27, 31, 35, 43, 51, 59,
      67, 83, 99, 115, 131, 163, 195, 227, 258>>
StdLengthBits ==
    <<0, 0, 0, 0, 0, 0, 0, 0, 1, 1, 1, 1, 2, 2, 2, 2, 3, 3, 3, 3,
      4, 4, 4, 4, 5, 5, 5, 5, 0>>

StdLength(l) ==
    LET k == CHOOSE j \in 1..Len(StdLengthBase) :
                 /\ StdLengthBase[j] <= l
                 /\ \A i \in 1..Len(StdLengthBase) : StdLengthBase[i] <= l => i <= j
    IN  <<256 + k, StdLengthBits[k], l - StdLengthBase[k]>>

\* C5: length_extra returns DEFLATE's triple for every length in 3..258.
C5_LengthTable ==
    (call.fn = "length_extra" /\ call.done) => call.ret = StdLength(call.arg)

\* C6: every length symbol written is in 257..285 and every distance symbol
\* in 0..29.
C6_NoFallbackSymbol ==
    \A k \in Matches :
        /\ 257 <= tokens[k].lsym /\ tokens[k].lsym <= 285
        /\ 0 <= tokens[k].dsym /\ tokens[k].dsym <= 29

\* bit k of the byte stream out: bit k mod 8, from the least significant, of
\* byte k div 8
StreamBit(out, k) == Bit(out[(k \div 8) + 1], k % 8)

\* C7: after the calls and one flush the output holds ceil(bits / 8) bytes,
\* and read as a bit stream it is the bits asked for, in call order, then
\* zeros up to the byte boundary.
C7_BitStream ==
    pc = "Flushed" =>
        LET out == output_writer.output_vector
        IN  /\ Len(out) = (Len(bitlog) + 7) \div 8
            /\ \A k \in 0..(8 * Len(out) - 1) :
                  StreamBit(out, k) = IF k < Len(bitlog) THEN bitlog[k + 1] ELSE 0

\* eight bits, the first of them a one, were held at the flush, which wrote
\* them as the one byte 1
C7_Witness ==
    /\ pc = "Flushed"
    /\ Len(bitlog) = 8
    /\ output_writer.bit_count = 8
    /\ output_writer.output_vector = <<1>>

\* C8: after a read that failed, the reader is at end-of-stream: flag is
\* false and buf_size is 0.
C8_FailedReadEndsStream ==
    stream.last = "err" => (input_reader.flag = FALSE /\ input_reader.buf_size = 0)

\* C9: every run of encode ends, in Done or with an error returned.
C9_Terminates == <>(pc \in {"Done", "Failed"})

WriteOrder == <<"local_header", "output_vector", "central_header", "end_header">>

\* C10: the output is written only in Finalizing, with the input at its end,
\* in the order local header, payload, central header, end record; a write
\* that fails is the last one attempted and makes encode return the error,
\* and Done is reached with the four records written.
C10_Writes ==
    /\ Len(written) <= Len(WriteOrder)
    /\ \A k \in 1..Len(written) :
          /\ written[k].record = WriteOrder[k]
          /\ (~ written[k].ok) => (k = Len(written) /\ pc = "Failed")
    /\ written # <<>> =>
          /\ Phase \in {"Finalizing", "Done", "Failed"}
          /\ input_reader.flag = FALSE
          /\ stream.pos = Len(input)
    /\ Phase \in {"Start", "StreamingCompress"} => written = <<>>
    /\ pc = "Done" => Len(written) = Len(WriteOrder)

\* the write of the payload failed after the local header was written
C10_Witness ==
    /\ pc = "Failed"
    /\ Len(written) = 2
    /\ written[1].ok /\ ~ written[2].ok

\* C11 as stated: between two calls of the writer bit_count is in 0..7.
C11_HeldBelowEight ==
    pc = "Bits" => output_writer.bit_count \in 0..7

\* C11, amended: between two calls of the writer bit_count is in 0..8, and
\* the bits asked for so far are the bytes of output_vector and the bit_count
\* bits held; a full byte stays held, with bit_count 8, until the next bit is
\* written or flush is called.
C11_HeldAtMostEight ==
    pc = "Bits" =>
        /\ output_writer.bit_count \in 0..8
        /\ 8 * Len(output_writer.output_vector) + output_writer.bit_count = Len(bitlog)
        /\ output_writer.bit_count = 0 => bitlog = <<>>

\* eight bits were asked for and the writer holds all eight, none moved
C11_Witness ==
    /\ pc = "Bits"
    /\ Len(bitlog) = 8
    /\ output_writer.bit_count = 8
    /\ output_writer.output_vector = <<>>

\* the u32 field stored little-endian from 0-based offset at of a header
field32(bytes, at) ==
    bytes[at + 1] + 256 * bytes[at + 2] + 65536 * bytes[at + 3] + 16777216 * bytes[at + 4]

\* C12: with N the length of the file name and C that of the payload, the
\* compressed-size fields of the local and central header are C, the end
\* record gives the central header's size, 46 + N, and the offset at which
\* it is written, 30 + N + C.
C12_HeaderSizes ==
    header.built =>
        LET N == Len(input_file)
            C == Len(output_writer.output_vector)
        IN  /\ field32(header.local_header, 18) = C
            /\ field32(header.central_header, 20) = C
            /\ Len(header.local_header) = 30 + N
            /\ Len(header.central_header) = 46 + N
            /\ field32(header.end_header, 12) = Len(header.central_header)
            /\ field32(header.end_header, 16) = Len(header.local_header) + C
            /\ field32(header.end_header, 16) = 30 + N + C

\* an archive was written for a file name of three bytes
C12_Witness ==
    /\ pc = "Done"
    /\ Len(input_file) = 3
    /\ Len(output_writer.output_vector) > 3
    /\ field32(header.end_header, 12) = 49

\* C13: file_size is at every moment the number of bytes the reads of the
\* stream have delivered, so it moves only with a read that returned a count
\* above 0; once the headers are built it is the length of the input, and
\* that is the uncompressed-size field of the local and the central header.
C13_FileSize ==
    /\ input_reader.file_size = stream.pos
    /\ header.built =>
          /\ input_reader.file_size = Len(input)
          /\ header.before_size = Len(input)
          /\ field32(header.local_header, 22) = Len(input)
          /\ field32(header.central_header, 24) = Len(input)

\* an input of exactly one full block, read as one block, reached the headers
C13_Witness ==
    /\ header.built
    /\ Len(input) = MAX_BUFFER_SIZE
    /\ stream.pos = MAX_BUFFER_SIZE
    /\ header.before_size = MAX_BUFFER_SIZE

\* the code <<length, value>> a is the first a[1] bits of the code b
IsPrefix(a, b) == a[1] <= b[1] /\ b[2] \div (2 ^ (b[1] - a[1])) = a[2]

\* C14: for a symbol num in 0..287 changer returns (8, 0x30 + num),
\* (9, 0x91 + num), (7, num - 0x100) or (8, num - 0x58) by the range of num,
\* and the code of no other symbol is equal to it, a prefix of it, or has it
\* as a prefix.
C14_FixedCode ==
    (call.fn = "changer" /\ call.done) =>
        LET num == call.arg
        IN  /\ call.ret = IF num <= 143 THEN <<8, 48 + num>>
                          ELSE IF num <= 255 THEN <<9, 145 + num>>
                          ELSE IF num <= 279 THEN <<7, num - 256>>
                          ELSE <<8, num - 88>>
            /\ \A other \in Symbols \ {num} :
                  /\ changer(other) # call.ret
                  /\ ~ IsPrefix(changer(other), call.ret)
                  /\ ~ IsPrefix(call.ret, changer(other))

\* DEFLATE's distance table (RFC 1951, 3.2.5): the base distance of symbols
\* 0..29 and their extra bits
StdDistanceBase ==
    <<1, 2, 3, 4, 5, 7, 9, 13, 17, 25, 33, 49, 65, 97, 129, 193, 257, 385, 513,
      769, 1025, 1537, 2049, 3073, 4097, 6145, 8193, 12289, 16385, 24577>>
StdDistanceBits ==
    <<0, 0, 0, 0, 1, 1, 2, 2, 3, 3, 4, 4, 5, 5, 6, 6, 7, 7, 8, 8, 9, 9, 10, 10,
      11, 11, 12, 12, 13, 13>>

StdDistance(d) ==
    LET k == CHOOSE j \in 1..Len(StdDistanceBase) :
                 /\ StdDistanceBase[j] <= d
                 /\ \A i \in 1..Len(StdDistanceBase) : StdDistanceBase[i] <= d => i <= j
    IN  <<k - 1, StdDistanceBits[k], d - StdDistanceBase[k]>>

\* C15: distance_extra returns DEFLATE's triple for every distance in
\* 1..32768: a symbol in 0..29, its extra-bit count in 0..13, and the
\* distance minus the symbol's base.
C15_DistanceTable ==
    (call.fn = "distance_extra" /\ call.done) =>
        /\ call.ret = StdDistance(call.arg)
        /\ call.ret[1] \in 0..29
        /\ call.ret[2] \in 0..13
        /\ StdDistanceBase[call.ret[1] + 1] + call.ret[3] = call.arg
        /\ call.ret[3] < 2 ^ call.ret[2]

\* the largest distance came back as symbol 29 with 13 extra bits, all ones
C15_Witness ==
    /\ call.fn = "distance_extra"
    /\ call.done
    /\ call.arg = 32768
    /\ call.ret = <<29, 13, 8191>>

\* check is the run of win that starts at 0-based index i
Occurs(win, check, i) ==
    /\ i + Len(check) <= Len(win)
    /\ SubSeq(win, i + 1, i + Len(check)) = check

\* C18: match_check returns -1 exactly when check is no contiguous run of
\* window; otherwise window.len() - check.len() - i + 1 for the smallest
\* index i at which check occurs, which is in 1..window.len() - check.len() + 1
\* and the largest distance of an occurrence.
C18_FirstOccurrence ==
    (call.fn = "match_check" /\ call.done) =>
        LET win == call.arg[1]
            check == call.arg[2]
            found == {i \in 0..Len(win) : Occurs(win, check, i)}
        IN  /\ call.ret = -1 <=> found = {}
            /\ Len(win) < Len(check) => call.ret = -1
            /\ found # {} =>
                  /\ \E i \in found :
                        /\ \A j \in found : i <= j
                        /\ call.ret = Len(win) - Len(check) - i + 1
                  /\ call.ret \in 1..(Len(win) - Len(check) + 1)
                  /\ \A j \in found : Len(win) - Len(check) - j + 1 <= call.ret

\* 0 1 occurs twice in 0 1 0 1; the call returned the distance of the older
C18_Witness ==
    /\ call.fn = "match_check"
    /\ call.done
    /\ call.arg = <<(<<0, 1, 0, 1>>), (<<0, 1>>)>>
    /\ call.ret = 3

\* C16: when encode has returned an error and main has returned, main has
\* printed the error and the exit status of the process is not 0.
C16_ErrorExit ==
    (pc = "Failed" /\ process.exited) =>
        (process.reported /\ process.status # 0)

\* C17: encode has kept no byte (fed to the CRC, put in the window and the
\* match candidate, emitted) that get_byte or seek_byte gave it while flag
\* was false.
C17_NoStaleByte == ~ stale

\* the bytes encode has consumed, in order: those passed to the CRC
Consumed == crcs

\* the last n entries of q, all of q if it has fewer
LastOf(q, n) == SubSeq(q, Len(q) - Min(n, Len(q)) + 1, Len(q))

\* C19: at the head of the outer loop, with k bytes consumed, the window is
\* the last min(1024, k) of them in order, and so holds at most 1024.
C19_WindowIsTail ==
    pc = "Loop" =>
        /\ window = LastOf(Consumed, Min(MAX_WINDOW_SIZE, Len(Consumed)))
        /\ Len(window) <= MAX_WINDOW_SIZE

(***************************************************************************)
(* The standard CRC-32 (reflected, polynomial 0x04C11DB7, initial value    *)
(* and final XOR all ones) in its usual form: a register shifted right,    *)
(* the reversed polynomial 0xEDB88320 XORed in for every 1 shifted out.    *)
(* A register is <<high 16 bits, low 16 bits>>.                            *)
(***************************************************************************)
RECURSIVE StdXor(_, _, _)
StdXor(a, b, n) ==
    IF n = 0 THEN 0
    ELSE (IF a % 2 = b % 2 THEN 0 ELSE 1) + 2 * StdXor(a \div 2, b \div 2, n - 1)

StdShiftOut(reg) ==
    LET shifted == <<reg[1] \div 2, (reg[1] % 2) * 32768 + reg[2] \div 2>>
    IN  IF reg[2] % 2 = 1
        THEN <<StdXor(shifted[1], 60856, 16), StdXor(shifted[2], 33568, 16)>>
        ELSE shifted

RECURSIVE StdShiftOuts(_, _)
StdShiftOuts(reg, n) ==
    IF n = 0 THEN reg
    ELSE CHOOSE r \in {StdShiftOuts(x, n - 1) : x \in {StdShiftOut(reg)}} : TRUE

RECURSIVE StdCrcFrom(_, _, _)
StdCrcFrom(reg, bytes, k) ==
    IF k > Len(bytes) THEN reg
    ELSE CHOOSE r \in {StdCrcFrom(x, bytes, k + 1) :
                          x \in {StdShiftOuts(<<reg[1], StdXor(reg[2], bytes[k], 16)>>, 8)}} :
             TRUE

StdCrc32(bytes) ==
    LET reg == StdCrcFrom(<<65535, 65535>>, bytes, 1)
    IN  <<65535 - reg[1], 65535 - reg[2]>>

\* C20: for the bytes b1..bn pushed, n >= 0, get_crc32 returns the standard
\* CRC-32 of b1..bn; for n = 0 it returns 0.
C20_StandardCrc ==
    pc = "CrcDone" =>
        /\ call.ret = StdCrc32(crcs)
        /\ crcs = <<>> => call.ret = <<0, 0>>

\* the one byte 'a' was pushed, three of the four zero bytes of get_crc32
\* went through the priming branch, and E8B7BE43 came back
C20_Witness ==
    /\ pc = "CrcDone"
    /\ crcs = <<97>>
    /\ call.arg.first_count = 1
    /\ call.ret = <<59575, 48707>>

====
